---- MODULE Spec2Model ----
(***************************************************************************)
(* Model of the console contact manager: the field validators (Phone,      *)
(* Birthday), Record, AddressBook (functionality_for_bot.py) and the       *)
(* command loop with its error decorator and persistence (main.py).        *)
(*                                                                         *)
(* Python strings are TLA+ strings; a datetime is <<year, month, day>>     *)
(* (every datetime the program builds is at midnight); None is <<>>.       *)
(* A call that may raise returns [exc, text, val]: exc = "none" and the    *)
(* value, or the exception class and its message.                          *)
(***************************************************************************)
EXTENDS Integers, Sequences, FiniteSets, TLC

VARIABLES book, today, ticks, pc, file, saves, last

vars == <<book, today, ticks, pc, file, saves, last>>

None == <<>>

Ok(v) == [exc |-> "none", text |-> "", val |-> v]

Raise(kind, msg) == [exc |-> kind, text |-> msg, val |-> None]

Min(a, b) == IF a < b THEN a ELSE b

(***************************************************************************)
(* str helpers                                                             *)
(***************************************************************************)
Char(s, i) == SubSeq(s, i, i)

\* s[a:b] with 0 <= a <= b
Slice(s, a, b) == IF a >= Min(b, Len(s)) THEN "" ELSE SubSeq(s, a + 1, Min(b, Len(s)))

DigitChars == {"0", "1", "2", "3", "4", "5", "6", "7", "8", "9"}

isdigit(s) == Len(s) > 0 /\ \A i \in 1..Len(s) : Char(s, i) \in DigitChars

startswith(s, p) == Len(s) >= Len(p) /\ SubSeq(s, 1, Len(p)) = p

DigitStr(n) == Char("0123456789", n + 1)

DigitVal(c) == CHOOSE n \in 0..9 : DigitStr(n) = c

RECURSIVE int(_)
int(s) == IF Len(s) = 0 THEN 0
          ELSE int(SubSeq(s, 1, Len(s) - 1)) * 10 + DigitVal(Char(s, Len(s)))

\* "%0wd" % n
RECURSIVE Pad(_, _)
Pad(n, w) == IF w = 0 THEN "" ELSE Pad(n \div 10, w - 1) \o DigitStr(n % 10)

\* str(n) for a small natural number
RECURSIVE str(_)
str(n) == IF n < 10 THEN DigitStr(n) ELSE str(n \div 10) \o DigitStr(n % 10)

Upper == "ABCDEFGHIJKLMNOPQRSTUVWXYZ"

Lower == "abcdefghijklmnopqrstuvwxyz"

LowerChar(c) == IF \E i \in 1..26 : Char(Upper, i) = c
                THEN Char(Lower, CHOOSE i \in 1..26 : Char(Upper, i) = c)
                ELSE c

RECURSIVE lower(_)
lower(s) == IF Len(s) = 0 THEN "" ELSE LowerChar(Char(s, 1)) \o lower(Tail(s))

\* s.split(): the maximal runs of non-blank characters, in order
RECURSIVE SplitFrom(_, _, _)
SplitFrom(s, i, word) ==
    IF i > Len(s) THEN (IF word = "" THEN <<>> ELSE <<word>>)
    ELSE IF Char(s, i) = " "
         THEN (IF word = "" THEN <<>> ELSE <<word>>) \o SplitFrom(s, i + 1, "")
         ELSE SplitFrom(s, i + 1, word \o Char(s, i))

split(s) == SplitFrom(s, 1, "")

RECURSIVE join(_, _)
join(sep, xs) == IF Len(xs) = 0 THEN ""
                 ELSE IF Len(xs) = 1 THEN xs[1]
                 ELSE xs[1] \o sep \o join(sep, Tail(xs))

(***************************************************************************)
(* datetime                                                                *)
(***************************************************************************)
MINYEAR == 1

MAXYEAR == 9999

IsLeap(y) == y % 4 = 0 /\ (y % 100 # 0 \/ y % 400 = 0)

DaysInMonth(y, m) == IF m = 2 THEN (IF IsLeap(y) THEN 29 ELSE 28)
                     ELSE IF m \in {4, 6, 9, 11} THEN 30 ELSE 31

RECURSIVE DaysBeforeMonth(_, _)
DaysBeforeMonth(y, m) == IF m = 1 THEN 0
                         ELSE DaysBeforeMonth(y, m - 1) + DaysInMonth(y, m - 1)

DaysBeforeYear(y) == (y - 1) * 365 + (y - 1) \div 4 - (y - 1) \div 100 + (y - 1) \div 400

ValidDate(y, m, d) == /\ y \in MINYEAR..MAXYEAR
                      /\ m \in 1..12
                      /\ d \in 1..DaysInMonth(y, m)

toordinal(dt) == DaysBeforeYear(dt[1]) + DaysBeforeMonth(dt[1], dt[2]) + dt[3]

\* Monday = 0 ... Sunday = 6
weekday(dt) == (toordinal(dt) + 6) % 7

NextDay(dt) == IF dt[3] < DaysInMonth(dt[1], dt[2]) THEN <<dt[1], dt[2], dt[3] + 1>>
               ELSE IF dt[2] < 12 THEN <<dt[1], dt[2] + 1, 1>>
               ELSE <<dt[1] + 1, 1, 1>>

\* dt + timedelta(days=n), n >= 0
RECURSIVE AddDays(_, _)
AddDays(dt, n) == IF n = 0 THEN dt ELSE AddDays(NextDay(dt), n - 1)

\* dt.replace(year=y)
replace(dt, y) == IF ValidDate(y, dt[2], dt[3]) THEN Ok(<<y, dt[2], dt[3]>>)
                  ELSE Raise("ValueError", "day is out of range for month")

\* dt.strftime('%d.%m.%Y')
strftime(dt) == Pad(dt[3], 2) \o "." \o Pad(dt[2], 2) \o "." \o Pad(dt[1], 4)

DotsOf(s) == {i \in 1..Len(s) : Char(s, i) = "."}

\* %d : 3[0-1] | [1-2]\d | 0[1-9] | [1-9] | " "[1-9]
MatchDay(s) == \/ Len(s) = 2 /\ isdigit(s) /\ int(s) \in 1..31
               \/ Len(s) = 1 /\ isdigit(s) /\ int(s) \in 1..9
               \/ Len(s) = 2 /\ Char(s, 1) = " " /\ isdigit(Char(s, 2)) /\ int(Char(s, 2)) \in 1..9

\* %m : 1[0-2] | 0[1-9] | [1-9]
MatchMonth(s) == \/ Len(s) = 2 /\ isdigit(s) /\ int(s) \in 1..12
                 \/ Len(s) = 1 /\ isdigit(s) /\ int(s) \in 1..9

\* %Y : \d\d\d\d
MatchYear(s) == Len(s) = 4 /\ isdigit(s)

DayVal(s) == IF Char(s, 1) = " " THEN int(Char(s, 2)) ELSE int(s)

\* datetime.strptime(value, '%d.%m.%Y')
strptime(value) ==
    LET dots == DotsOf(value) IN
    IF Cardinality(dots) # 2
    THEN Raise("ValueError", "time data does not match format")
    ELSE LET i == CHOOSE a \in dots : \A b \in dots : a <= b
             j == CHOOSE a \in dots : \A b \in dots : b <= a
             ds == SubSeq(value, 1, i - 1)
             ms == SubSeq(value, i + 1, j - 1)
             ys == SubSeq(value, j + 1, Len(value))
         IN IF ~(MatchDay(ds) /\ MatchMonth(ms) /\ MatchYear(ys))
            THEN Raise("ValueError", "time data does not match format")
            ELSE IF ~ValidDate(int(ys), int(ms), DayVal(ds))
                 THEN Raise("ValueError", "day is out of range for month")
                 ELSE Ok(<<int(ys), int(ms), DayVal(ds)>>)

(***************************************************************************)
(* Field validators                                                        *)
(***************************************************************************)
PhoneLen == 10

\* Phone without the length test
Phone_anylen(value) == IF isdigit(value) THEN Ok(value)
                       ELSE Raise("ValidationError", "The phone must have 10 numbers.")

\* Phone(value): the stored value, or ValidationError
Phone(value) == IF isdigit(value) /\ Len(value) = PhoneLen THEN Ok(value)
                ELSE Raise("ValidationError", "The phone must have 10 numbers.")

\* __validation that rejects today's date
validation_strict(birthday, now) == IF toordinal(birthday) < toordinal(now) THEN Ok(birthday)
                                    ELSE Raise("ValidationError", "Incorrect date.")

\* Birthday.__validation(birthday) with datetime.now() = now
validation(birthday, now) == IF toordinal(birthday) <= toordinal(now) THEN Ok(birthday)
                             ELSE Raise("ValidationError", "Incorrect date.")

\* Birthday(value) with datetime.now() = now
Birthday(value, now) ==
    LET parsed == strptime(value) IN
    IF parsed.exc = "ValueError"
    THEN Raise("ValueError", "Invalid date format. Use DD.MM.YYYY")
    ELSE validation(parsed.val, now)

\* Birthday.__str__
BirthdayStr(b) == strftime(b)

(***************************************************************************)
(* Record: [name, phones, birthday]; phones is the list of Phone values,   *)
(* birthday is None or the stored datetime.  A method returns              *)
(* [exc, text, rec, ret]: rec is the record as the call leaves it, also    *)
(* when it raises.                                                         *)
(***************************************************************************)
Returns(rec, ret) == [exc |-> "none", text |-> "", rec |-> rec, ret |-> ret]

Raises(rec, e) == [exc |-> e.exc, text |-> e.text, rec |-> rec, ret |-> None]

\* Record(name, phone); phone = "" stands for an omitted (None) or empty phone
Record(name, phone) ==
    IF phone # ""
    THEN LET ph == Phone(phone) IN
         IF ph.exc # "none" THEN Raises(None, ph)
         ELSE Returns([name |-> name, phones |-> <<ph.val>>, birthday |-> None], None)
    ELSE Returns([name |-> name, phones |-> <<>>, birthday |-> None], None)

\* the indices of the phones whose value equals v
Matches(rec, v) == {i \in 1..Len(rec.phones) : rec.phones[i] = v}

\* [v.value for v in self.phones].index(v)
index(rec, v) == CHOOSE i \in Matches(rec, v) : \A k \in Matches(rec, v) : i <= k

NotInList(v) == Raise("ValueError", "'" \o v \o "' is not in list")

\* Record.find_phone: Phone(phone) is built once per stored phone, inside the
\* comprehension, so an empty list never validates the argument
find_phone(rec, phone) ==
    IF Len(rec.phones) > 0 /\ Phone(phone).exc # "none"
    THEN Raises(rec, Phone(phone))
    ELSE IF Matches(rec, phone) = {} THEN Returns(rec, None)
         ELSE Returns(rec, <<rec.phones[index(rec, phone)]>>)

\* add_phone without the find_phone test
add_phone_always(rec, phone) ==
    LET ph == Phone(phone) IN
    IF ph.exc # "none" THEN Raises(rec, ph)
    ELSE Returns([rec EXCEPT !.phones = Append(@, ph.val)], None)

\* Record.add_phone
add_phone(rec, phone) ==
    LET found == find_phone(rec, phone) IN
    IF found.exc # "none" THEN found
    ELSE IF found.ret = None
         THEN LET ph == Phone(phone) IN
              IF ph.exc # "none" THEN Raises(rec, ph)
              ELSE Returns([rec EXCEPT !.phones = Append(@, ph.val)], None)
         ELSE Returns(rec, None)

\* list.pop(i)
pop(xs, i) == SubSeq(xs, 1, i - 1) \o SubSeq(xs, i + 1, Len(xs))

\* Record.remove_phone
remove_phone(rec, phone) ==
    LET ph == Phone(phone) IN
    IF ph.exc # "none" THEN Raises(rec, ph)
    ELSE IF Matches(rec, ph.val) = {} THEN Raises(rec, NotInList(ph.val))
         ELSE Returns([rec EXCEPT !.phones = pop(@, index(rec, ph.val))], None)

\* edit_phone that drops the entry equal to new_phone instead of old_phone
edit_phone_dropnew(rec, old_phone, new_phone) ==
    LET old == Phone(old_phone) IN
    IF old.exc # "none" THEN Raises(rec, old)
    ELSE IF Matches(rec, old.val) = {} THEN Raises(rec, NotInList(old.val))
    ELSE LET i == index(rec, old.val)
             found == find_phone(rec, new_phone)
         IN IF found.exc # "none" THEN found
            ELSE IF found.ret # None /\ old_phone # new_phone
                 THEN remove_phone(rec, new_phone)
                 ELSE LET new == Phone(new_phone) IN
                      IF new.exc # "none" THEN Raises(rec, new)
                      ELSE Returns([rec EXCEPT !.phones[i] = new.val], None)

\* Record.edit_phone
edit_phone(rec, old_phone, new_phone) ==
    LET old == Phone(old_phone) IN
    IF old.exc # "none" THEN Raises(rec, old)
    ELSE IF Matches(rec, old.val) = {} THEN Raises(rec, NotInList(old.val))
    ELSE LET i == index(rec, old.val)
             found == find_phone(rec, new_phone)
         IN IF found.exc # "none" THEN found
            ELSE IF found.ret # None /\ old_phone # new_phone
                 THEN remove_phone(rec, old_phone)
                 ELSE LET new == Phone(new_phone) IN
                      IF new.exc # "none" THEN Raises(rec, new)
                      ELSE Returns([rec EXCEPT !.phones[i] = new.val], None)

\* Record.add_birthday with datetime.now() = now
add_birthday(rec, birthday, now) ==
    LET b == Birthday(birthday, now) IN
    IF b.exc # "none" THEN Raises(rec, b)
    ELSE Returns([rec EXCEPT !.birthday = b.val], None)

\* str(self.birthday)
BirthdayText(rec) == IF rec.birthday = None THEN "None" ELSE BirthdayStr(rec.birthday)

\* Record.__str__
RecordStr(rec) == "Contact name: " \o rec.name \o ", phones: " \o join("; ", rec.phones)
                  \o ", birthday: " \o BirthdayText(rec)

(***************************************************************************)
(* AddressBook: the records in the dict's iteration (insertion) order,     *)
(* one per name.                                                           *)
(***************************************************************************)
Keys(data) == {data[i].name : i \in 1..Len(data)}

Pos(data, name) == CHOOSE i \in 1..Len(data) : data[i].name = name

\* AddressBook.add_record: self.data[record.name.value] = record
add_record(data, record) ==
    IF record.name \in Keys(data) THEN [data EXCEPT ![Pos(data, record.name)] = record]
    ELSE Append(data, record)

\* AddressBook.find: self.data.get(name)
find(data, name) == IF name \in Keys(data) THEN <<data[Pos(data, name)]>> ELSE None

\* AddressBook.delete: self.data.pop(name)
delete(data, name) ==
    IF name \in Keys(data) THEN Ok(pop(data, Pos(data, name)))
    ELSE Raise("KeyError", "'" \o name \o "'")

\* the loop body without the weekend roll-forward
Upcoming_noroll(rec, now) ==
    IF rec.birthday = None THEN Ok(None)
    ELSE LET thisYear == replace(rec.birthday, now[1]) IN
         IF thisYear.exc # "none" THEN thisYear
         ELSE LET moved == IF toordinal(thisYear.val) < toordinal(now)
                           THEN replace(thisYear.val, now[1] + 1)
                           ELSE thisYear
              IN IF moved.exc # "none" THEN moved
                 ELSE LET birthday == moved.val
                          diff == toordinal(birthday) - toordinal(now)
                      IN IF 0 <= diff /\ diff <= 7
                         THEN Ok(<<[name |-> rec.name, birthday |-> strftime(birthday)]>>)
                         ELSE Ok(None)

\* one pass of the loop body of get_upcoming_birthdays for rec:
\* None (skipped), <<entry>> (appended) or the ValueError of replace()
Upcoming(rec, now) ==
    IF rec.birthday = None THEN Ok(None)
    ELSE LET thisYear == replace(rec.birthday, now[1]) IN
         IF thisYear.exc # "none" THEN thisYear
         ELSE LET moved == IF toordinal(thisYear.val) < toordinal(now)
                           THEN replace(thisYear.val, now[1] + 1)
                           ELSE thisYear
              IN IF moved.exc # "none" THEN moved
                 ELSE LET birthday == moved.val
                          diff == toordinal(birthday) - toordinal(now)
                          wd == weekday(birthday)
                          shown == IF wd = 5 \/ wd = 6 THEN AddDays(birthday, 7 - wd)
                                   ELSE birthday
                      IN IF 0 <= diff /\ diff <= 7
                         THEN Ok(<<[name |-> rec.name, birthday |-> strftime(shown)]>>)
                         ELSE Ok(None)

\* AddressBook.get_upcoming_birthdays with datetime.now() = now: the list
\* built over the records in order, or the first exception
RECURSIVE UpcomingFrom(_, _, _, _)
UpcomingFrom(data, i, res, now) ==
    IF i > Len(data) THEN Ok(res)
    ELSE LET one == Upcoming(data[i], now) IN
         IF one.exc # "none" THEN one
         ELSE UpcomingFrom(data, i + 1, res \o one.val, now)

get_upcoming_birthdays(data, now) == UpcomingFrom(data, 1, <<>>, now)

\* AddressBook.__str__
RECURSIVE BookStrFrom(_, _)
BookStrFrom(data, i) ==
    IF i > Len(data) THEN ""
    ELSE str(i) \o ". " \o RecordStr(data[i]) \o ";\n" \o BookStrFrom(data, i + 1)

BookStr(data) == BookStrFrom(data, 1)

(***************************************************************************)
(* Persistence (main.py): the file is absent or holds the pickled book.    *)
(* A pickled record is the tuple of its fields.                            *)
(***************************************************************************)
NoFile == [exists |-> FALSE, data |-> <<>>]

\* pickle.dump without the birthday field
dumps_nobirthday(data) ==
    [i \in 1..Len(data) |-> <<data[i].name, data[i].phones, None>>]

\* pickle.dump(book, f)
dumps(data) ==
    [i \in 1..Len(data) |-> <<data[i].name, data[i].phones, data[i].birthday>>]

\* pickle.load(f)
loads(bytes) ==
    [i \in 1..Len(bytes) |->
        [name |-> bytes[i][1], phones |-> bytes[i][2], birthday |-> bytes[i][3]]]

\* save_data(book)
save_data(data) == [exists |-> TRUE, data |-> dumps(data)]

\* load_data(): FileNotFoundError gives a fresh AddressBook
load_data(f) == IF f.exists THEN loads(f.data) ELSE <<>>

(***************************************************************************)
(* Command handlers (main.py).  A handler returns [exc, text, book]: the   *)
(* text it returns (exc = "none") or the exception it raises, and the book *)
(* as the call leaves it.                                                  *)
(***************************************************************************)
Done(msg, data) == [exc |-> "none", text |-> msg, book |-> data]

Fails(e, data) == [exc |-> e.exc, text |-> e.text, book |-> data]

\* name, a, ... , *_ = args with fewer values than names
UnpackError(need, got) ==
    Raise("ValueError", "not enough values to unpack (expected at least "
                        \o str(need) \o ", got " \o str(got) \o ")")

\* None.attr
NoneAttr(attr) ==
    Raise("AttributeError", "'NoneType' object has no attribute '" \o attr \o "'")

Put(data, name, rec) == [data EXCEPT ![Pos(data, name)] = rec]

\* input_error that lets ValueError and IndexError through
input_error_lookup_only(h) ==
    IF h.exc = "none" THEN [caught |-> TRUE, text |-> h.text]
    ELSE IF h.exc = "ValidationError" THEN [caught |-> TRUE, text |-> h.text]
    ELSE IF h.exc \in {"AttributeError", "KeyError"}
         THEN [caught |-> TRUE, text |-> "Contact not found."]
         ELSE [caught |-> FALSE, text |-> h.text]

\* input_error: what the decorated call returns (printed by main), or
\* caught = FALSE when the exception is none of those it handles
input_error(h) ==
    IF h.exc = "none" THEN [caught |-> TRUE, text |-> h.text]
    ELSE IF h.exc = "ValidationError" THEN [caught |-> TRUE, text |-> h.text]
    ELSE IF h.exc \in {"ValueError", "IndexError"}
         THEN IF isdigit(Slice(h.text, 1, 11)) \/ startswith(h.text, "Invalid date")
              THEN [caught |-> TRUE, text |-> h.text \o "."]
              ELSE [caught |-> TRUE, text |-> "Enter the argument for the command."]
    ELSE IF h.exc \in {"AttributeError", "KeyError"}
         THEN [caught |-> TRUE, text |-> "Contact not found."]
         ELSE [caught |-> FALSE, text |-> h.text]

Chars(s) == [i \in 1..Len(s) |-> Char(s, i)]

\* command, *args = parse_input(user_input): the words of the line, or, for
\* a line without words, the characters of the message input_error returns
parse_input(user_input) ==
    LET words == split(user_input) IN
    IF Len(words) = 0
    THEN Chars(input_error(Fails(UnpackError(1, 0), <<>>)).text)
    ELSE <<lower(words[1])>> \o Tail(words)

\* the end of a handler that called a Record method on the record of name:
\* the exception goes on to input_error, or the handler returns msg
Finish(r, msg, data, name) ==
    IF r.exc # "none" THEN Fails(r, Put(data, name, r.rec))
    ELSE Done(msg, Put(data, name, r.rec))

\* add_contact from record = book.find(name) on: data is the book after
\* book.add_record(record) when the record is new
AddTo(data, name, phone, msg) ==
    IF phone # "" THEN Finish(add_phone(find(data, name)[1], phone), msg, data, name)
    ELSE Done(msg, data)

\* add_contact; the omitted phone (None) is ""
add_contact(args, data) ==
    IF Len(args) = 0 THEN Fails(Raise("IndexError", "list index out of range"), data)
    ELSE IF find(data, args[1]) = None
         THEN AddTo(add_record(data, Record(args[1], "").rec), args[1],
                    IF Len(args) >= 2 THEN args[2] ELSE "", "Contact added.")
         ELSE AddTo(data, args[1], IF Len(args) >= 2 THEN args[2] ELSE "", "Contact update.")

\* change_contact
change_contact(args, data) ==
    IF Len(args) < 3 THEN Fails(UnpackError(3, Len(args)), data)
    ELSE IF find(data, args[1]) = None THEN Fails(NoneAttr("edit_phone"), data)
    ELSE Finish(edit_phone(find(data, args[1])[1], args[2], args[3]),
                "Contact changed.", data, args[1])

\* remove_phone (the command)
remove_phone_cmd(args, data) ==
    IF Len(args) < 2 THEN Fails(UnpackError(2, Len(args)), data)
    ELSE IF find(data, args[1]) = None THEN Fails(NoneAttr("remove_phone"), data)
    ELSE Finish(remove_phone(find(data, args[1])[1], args[2]), "Phone remove.", data, args[1])

\* the end of delete_contact, r being the outcome of book.delete(name)
Deleted(r, data) == IF r.exc # "none" THEN Fails(r, data) ELSE Done("Contact delete.", r.val)

\* delete_contact
delete_contact(args, data) ==
    IF Len(args) < 1 THEN Fails(UnpackError(1, Len(args)), data)
    ELSE Deleted(delete(data, args[1]), data)

\* show_phone
show_phone(args, data) ==
    IF Len(args) < 1 THEN Fails(UnpackError(1, Len(args)), data)
    ELSE IF find(data, args[1]) = None THEN Fails(NoneAttr("phones"), data)
    ELSE Done("Phones: " \o join("; ", find(data, args[1])[1].phones), data)

\* show_all_contacts, printed through AddressBook.__str__
show_all_contacts(data) == Done(BookStr(data), data)

\* add_birthday (the command) with datetime.now() = now
add_birthday_cmd(args, data, now) ==
    IF Len(args) < 2 THEN Fails(UnpackError(2, Len(args)), data)
    ELSE IF find(data, args[1]) = None THEN Fails(NoneAttr("birthday"), data)
    ELSE Finish(add_birthday(find(data, args[1])[1], args[2], now),
                IF find(data, args[1])[1].birthday = None THEN "Birthday added."
                ELSE "Birthday update.",
                data, args[1])

\* show_birthday
show_birthday(args, data) ==
    IF Len(args) < 1 THEN Fails(UnpackError(1, Len(args)), data)
    ELSE IF find(data, args[1]) = None THEN Fails(NoneAttr("birthday"), data)
    ELSE Done("Birthday: " \o BirthdayText(find(data, args[1])[1]), data)

RECURSIVE BirthdaysFrom(_, _)
BirthdaysFrom(entries, i) ==
    IF i > Len(entries) THEN ""
    ELSE str(i) \o ". Contact name: " \o entries[i].name \o ", birthday: "
         \o entries[i].birthday \o ";\n" \o BirthdaysFrom(entries, i + 1)

\* the end of birthdays, r being the outcome of book.get_upcoming_birthdays()
Listed(r, data) == IF r.exc # "none" THEN Fails(r, data) ELSE Done(BirthdaysFrom(r.val, 1), data)

\* birthdays with datetime.now() = now
birthdays(data, now) == Listed(get_upcoming_birthdays(data, now), data)

\* what main prints for the outcome h of a handler, through the decorator d,
\* and whether the exception was caught
Printed(h, d) == [caught |-> d.caught, exc |-> h.exc, book |-> h.book, text |-> d.text]

Answer(h) == Printed(h, input_error(h))

\* the if/elif chain of main for a command other than close and exit
Dispatch(command, args, data, now) ==
    CASE command = "hello" -> Printed(Done("How can I help you?", data),
                                      [caught |-> TRUE, text |-> "How can I help you?"])
      [] command = "add" -> Answer(add_contact(args, data))
      [] command = "change" -> Answer(change_contact(args, data))
      [] command = "remove-phone" -> Answer(remove_phone_cmd(args, data))
      [] command = "phone" -> Answer(show_phone(args, data))
      [] command = "all" -> Answer(show_all_contacts(data))
      [] command = "add-birthday" -> Answer(add_birthday_cmd(args, data, now))
      [] command = "show-birthday" -> Answer(show_birthday(args, data))
      [] command = "birthdays" -> Answer(birthdays(data, now))
      [] command = "delete" -> Answer(delete_contact(args, data))
      [] OTHER -> Printed(Done("Invalid command.", data),
                          [caught |-> TRUE, text |-> "Invalid command."])

(***************************************************************************)
(* Direct calls of the Record and AddressBook methods on the book.  last   *)
(* records the latest call: the method, its arguments, the exception it    *)
(* raised ("none" when it returned), its return value and the book as it   *)
(* was when the call began.                                                *)
(***************************************************************************)
Called(op, args, r, ret) ==
    [op |-> op, args |-> args, exc |-> r.exc, text |-> r.text, ret |-> ret, before |-> book]

\* the book with the record of name replaced by rec
Store(name, rec) == [book EXCEPT ![Pos(book, name)] = rec]

Rec(name) == book[Pos(book, name)]

\* book.add_record(Record(name, phone))
NewRecord(name, phone) ==
    LET r == Record(name, phone) IN
    /\ pc = "api"
    /\ book' = IF r.exc = "none" THEN add_record(book, r.rec) ELSE book
    /\ last' = Called("Record", <<name, phone>>, r, None)
    /\ UNCHANGED <<today, ticks, pc, file, saves>>

\* book.find(name).add_phone(phone)
CallAddPhone(name, phone) ==
    /\ pc = "api"
    /\ name \in Keys(book)
    /\ LET r == add_phone(Rec(name), phone) IN
       /\ book' = Store(name, r.rec)
       /\ last' = Called("add_phone", <<name, phone>>, r, None)
    /\ UNCHANGED <<today, ticks, pc, file, saves>>

\* book.find(name).remove_phone(phone)
CallRemovePhone(name, phone) ==
    /\ pc = "api"
    /\ name \in Keys(book)
    /\ LET r == remove_phone(Rec(name), phone) IN
       /\ book' = Store(name, r.rec)
       /\ last' = Called("remove_phone", <<name, phone>>, r, None)
    /\ UNCHANGED <<today, ticks, pc, file, saves>>

\* book.find(name).edit_phone(old_phone, new_phone)
CallEditPhone(name, old_phone, new_phone) ==
    /\ pc = "api"
    /\ name \in Keys(book)
    /\ LET r == edit_phone(Rec(name), old_phone, new_phone) IN
       /\ book' = Store(name, r.rec)
       /\ last' = Called("edit_phone", <<name, old_phone, new_phone>>, r, None)
    /\ UNCHANGED <<today, ticks, pc, file, saves>>

\* book.find(name).find_phone(phone)
CallFindPhone(name, phone) ==
    /\ pc = "api"
    /\ name \in Keys(book)
    /\ LET r == find_phone(Rec(name), phone) IN
       /\ book' = Store(name, r.rec)
       /\ last' = Called("find_phone", <<name, phone>>, r, r.ret)
    /\ UNCHANGED <<today, ticks, pc, file, saves>>

\* book.find(name).add_birthday(birthday)
CallAddBirthday(name, birthday) ==
    /\ pc = "api"
    /\ name \in Keys(book)
    /\ LET r == add_birthday(Rec(name), birthday, today) IN
       /\ book' = Store(name, r.rec)
       /\ last' = Called("add_birthday", <<name, birthday>>, r, None)
    /\ UNCHANGED <<today, ticks, pc, file, saves>>

\* book.delete(name)
CallDelete(name) ==
    LET r == delete(book, name) IN
    /\ pc = "api"
    /\ book' = IF r.exc = "none" THEN r.val ELSE book
    /\ last' = Called("delete", <<name>>, r, None)
    /\ UNCHANGED <<today, ticks, pc, file, saves>>

\* book.get_upcoming_birthdays()
CallUpcoming ==
    LET r == get_upcoming_birthdays(book, today) IN
    /\ pc = "api"
    /\ last' = Called("get_upcoming_birthdays", <<>>, r, r.val)
    /\ UNCHANGED <<book, today, ticks, pc, file, saves>>

MaxTicks == 13

\* midnight passes between two calls
Tick ==
    /\ pc = "api"
    /\ ticks < MaxTicks
    /\ ticks' = ticks + 1
    /\ today' = NextDay(today)
    /\ last' = Called("tick", <<>>, Ok(None), None)
    /\ UNCHANGED <<book, pc, file, saves>>

NoCall == [op |-> "", args |-> <<>>, exc |-> "none", text |-> "", ret |-> None,
           before |-> <<>>]

(***************************************************************************)
(* SpecRecord: one record, every Record method, every kind of argument.    *)
(***************************************************************************)
RecordNames == {"Ann"}

ValidPhones == {"1234567890", "0987654321", "5550001111"}

BadPhones == {"123456789", "12345678901", "12345abcde"}

PhoneArgs == ValidPhones \cup BadPhones

DateArgs == {"01.01.2000", "1.1.2000", "29.02.2000", "28.12.2024", "30.02.2000",
             "29.02.2001", "2000-01-01", "01.01.20", "01.01.2030"}

RecordDays == {<<2024, 12, 27>>, <<2024, 12, 28>>}

InitRecord ==
    /\ book = <<>>
    /\ today \in RecordDays
    /\ ticks = 0
    /\ pc = "api"
    /\ file = NoFile
    /\ saves = 0
    /\ last = NoCall

NextRecord ==
    \/ \E n \in RecordNames, p \in PhoneArgs \cup {""} : NewRecord(n, p)
    \/ \E n \in RecordNames, p \in PhoneArgs : CallAddPhone(n, p)
    \/ \E n \in RecordNames, p \in PhoneArgs : CallRemovePhone(n, p)
    \/ \E n \in RecordNames, p \in PhoneArgs, q \in PhoneArgs : CallEditPhone(n, p, q)
    \/ \E n \in RecordNames, p \in PhoneArgs : CallFindPhone(n, p)
    \/ \E n \in RecordNames, d \in DateArgs : CallAddBirthday(n, d)

SpecRecord == InitRecord /\ [][NextRecord]_vars

(***************************************************************************)
(* SpecBook: two records with birthdays, the AddressBook methods, and the  *)
(* calendar moving on: the days before the turn of the year 2024/2025 and  *)
(* the days around 29 February 2024.                                       *)
(***************************************************************************)
BookNames == {"Ann", "Bob"}

BirthdayArgs == {"28.12.2000", "01.01.2000", "05.01.1999", "29.02.2000", "20.12.2024"}

BookDays == {<<2024, 12, 20>>, <<2024, 2, 20>>}

InitBook ==
    /\ book = <<>>
    /\ today \in BookDays
    /\ ticks = 0
    /\ pc = "api"
    /\ file = NoFile
    /\ saves = 0
    /\ last = NoCall

NextBook ==
    \/ \E n \in BookNames : NewRecord(n, "")
    \/ \E n \in BookNames, d \in BirthdayArgs : CallAddBirthday(n, d)
    \/ \E n \in BookNames : CallDelete(n)
    \/ CallUpcoming
    \/ Tick

SpecBook == InitBook /\ [][NextBook]_vars

(***************************************************************************)
(* Spec: one run of main.  pc is "start" before load_data, "loop" at the   *)
(* prompt, "done" after save_data, "crashed" when an exception left main.  *)
(* saves counts the calls of save_data.                                    *)
(***************************************************************************)
Names == {"Ann", "Bob"}

MainPhones == {"1234567890", "0987654321", "12345"}

MainDates == {"28.12.2000", "29.02.2000", "2000-01-01", "01.01.2030"}

MainDay == <<2024, 12, 28>>

InputLines ==
    {"", "   ", "hello", "bogus", "all", "birthdays", "close", "EXIT", " exit  now",
     "add", "change Ann", "remove-phone Ann", "phone", "add-birthday Ann",
     "show-birthday", "delete", "add Bob 12345"}
    \cup {"add " \o n : n \in Names}
    \cup {"add Ann " \o p : p \in MainPhones}
    \cup {"change Ann " \o p \o " " \o q : p \in MainPhones, q \in MainPhones}
    \cup {"remove-phone Ann " \o p : p \in MainPhones}
    \cup {"phone " \o n : n \in Names}
    \cup {"add-birthday Ann " \o d : d \in MainDates}
    \cup {"show-birthday " \o n : n \in Names}
    \cup {"delete " \o n : n \in Names}

\* parse_input, tabulated over the input lines
Parsed == [line \in InputLines |-> parse_input(line)]

\* book = load_data()
Load ==
    /\ pc = "start"
    /\ book' = load_data(file)
    /\ pc' = "loop"
    /\ UNCHANGED <<today, ticks, file, saves, last>>

\* the effect of a pass of the while loop: d is what Dispatch gave
Respond(command, args, d) ==
    /\ book' = d.book
    /\ pc' = IF d.caught THEN "loop" ELSE "crashed"
    /\ last' = [op |-> command, args |-> args, exc |-> d.exc, text |-> d.text,
                ret |-> None, before |-> book]

\* one pass of the while loop for a line that is not close or exit
Command(user_input) ==
    /\ pc = "loop"
    /\ Parsed[user_input][1] \notin {"close", "exit"}
    /\ Respond(Parsed[user_input][1], Tail(Parsed[user_input]),
               Dispatch(Parsed[user_input][1], Tail(Parsed[user_input]), book, today))
    /\ UNCHANGED <<today, ticks, file, saves>>

\* close or exit: break, then save_data(book)
Exit(user_input) ==
    /\ pc = "loop"
    /\ LET parsed == Parsed[user_input] IN
       /\ parsed[1] \in {"close", "exit"}
       /\ last' = [op |-> parsed[1], args |-> Tail(parsed), exc |-> "none",
                   text |-> "Good bye!", ret |-> None, before |-> book]
    /\ file' = save_data(book)
    /\ saves' = saves + 1
    /\ pc' = "done"
    /\ UNCHANGED <<book, today, ticks>>

\* the books a previous run may have left behind
SavedBooks ==
    {<<[name |-> "Bob", phones |-> <<"0987654321">>, birthday |-> <<2000, 12, 28>>]>>}

Init ==
    /\ book = <<>>
    /\ today = MainDay
    /\ ticks = 0
    /\ pc = "start"
    /\ file \in {NoFile} \cup {save_data(b) : b \in SavedBooks}
    /\ saves = 0
    /\ last = NoCall

Next ==
    \/ Load
    \/ \E line \in InputLines : Command(line)
    \/ \E line \in InputLines : Exit(line)

Spec == Init /\ [][Next]_vars

(***************************************************************************)
(* Properties of Record and the field validators (SpecRecord)              *)
(***************************************************************************)
PhonesIn(data, name) == IF name \in Keys(data) THEN data[Pos(data, name)].phones ELSE <<>>

BirthdayIn(data, name) == IF name \in Keys(data) THEN data[Pos(data, name)].birthday ELSE None

Elems(xs) == {xs[i] : i \in 1..Len(xs)}

Count(xs, v) == Cardinality({i \in 1..Len(xs) : xs[i] = v})

TenDigits(s) == Len(s) = 10 /\ \A i \in 1..10 : \E n \in 0..9 : Char(s, i) = DigitStr(n)

\* C1: no record ever holds two phones with the same value, whatever sequence
\* of construction, add_phone, remove_phone and edit_phone calls (returning or
\* raising) produced it; add_phone of a value already present leaves the list
\* as it was.
C1_NoDuplicatePhones ==
    /\ \A k \in 1..Len(book) : \A i, j \in 1..Len(book[k].phones) :
           book[k].phones[i] = book[k].phones[j] => i = j
    /\ (last.op = "add_phone" /\ last.args[2] \in Elems(PhonesIn(last.before, last.args[1])))
           => PhonesIn(book, last.args[1]) = PhonesIn(last.before, last.args[1])

\* add_phone was called with a phone the record already held, next to another
C1_Witness ==
    /\ last.op = "add_phone"
    /\ last.exc = "none"
    /\ last.args[2] \in Elems(PhonesIn(last.before, last.args[1]))
    /\ Len(PhonesIn(book, last.args[1])) = 2

Without(xs, v) == SelectSeq(xs, LAMBDA x : x # v)

\* C2: edit_phone(old, new) with a valid new: when old is stored, and new is
\* stored too and differs from old, the entry old disappears, new stays once
\* and the other entries keep their order; when old is stored otherwise, new
\* takes the place of old and nothing else changes; when old is not stored the
\* call raises and the list is unchanged.
C2_EditPhone ==
    (last.op = "edit_phone" /\ last.args[3] \in ValidPhones) =>
        LET old == last.args[2]
            new == last.args[3]
            b == PhonesIn(last.before, last.args[1])
            a == PhonesIn(book, last.args[1])
        IN IF old \in Elems(b)
           THEN /\ last.exc = "none"
                /\ IF new \in Elems(b) /\ old # new
                   THEN /\ old \notin Elems(a)
                        /\ Count(a, new) = 1
                        /\ Len(a) = Len(b) - 1
                        /\ a = Without(b, old)
                   ELSE /\ Len(a) = Len(b)
                        /\ \A i \in 1..Len(b) : a[i] = IF b[i] = old THEN new ELSE b[i]
           ELSE /\ last.exc # "none"
                /\ a = b

\* edit_phone collapsed the first of three phones onto the last one
C2_Witness ==
    /\ last.op = "edit_phone"
    /\ last.exc = "none"
    /\ Len(PhonesIn(last.before, last.args[1])) = 3
    /\ PhonesIn(last.before, last.args[1])[1] = last.args[2]
    /\ PhonesIn(last.before, last.args[1])[3] = last.args[3]
    /\ Len(PhonesIn(book, last.args[1])) = 2

\* C6: every stored phone is a string of exactly 10 digits; building a
\* record with a first phone returns for a 10-digit string and raises
\* ValidationError for any other, and add_phone and edit_phone raise and
\* store nothing when the phone to store is not 10 digits.
C6_PhonesAreTenDigits ==
    /\ \A k \in 1..Len(book) : \A i \in 1..Len(book[k].phones) : TenDigits(book[k].phones[i])
    /\ (last.op = "Record" /\ last.args[2] # "") =>
           /\ last.exc = "none" <=> TenDigits(last.args[2])
           /\ last.exc \in {"none", "ValidationError"}
    /\ (last.op \in {"add_phone", "edit_phone"} /\ ~TenDigits(last.args[Len(last.args)])) =>
           /\ last.exc # "none"
           /\ last.op = "add_phone" => last.exc = "ValidationError"
           /\ book = last.before

\* a record holds two validated phones, one of them put there by edit_phone
C6_Witness ==
    /\ last.op = "edit_phone"
    /\ last.exc = "none"
    /\ Len(PhonesIn(book, last.args[1])) = 2
    /\ last.args[3] \in Elems(PhonesIn(book, last.args[1]))
    /\ last.args[3] \notin Elems(PhonesIn(last.before, last.args[1]))

\* C9: find_phone never raises and never changes the record, for any string:
\* it returns the stored phone equal to the argument, or None.
C9_FindPhoneTotal ==
    last.op = "find_phone" =>
        /\ last.exc = "none"
        /\ last.ret = IF last.args[2] \in Elems(PhonesIn(last.before, last.args[1]))
                      THEN <<last.args[2]>> ELSE None
        /\ book = last.before

\* the date each argument of DateArgs denotes, None for a string that is not
\* a DD.MM.YYYY date
Denotes(s) ==
    CASE s = "01.01.2000" -> <<2000, 1, 1>>
      [] s = "1.1.2000"   -> <<2000, 1, 1>>
      [] s = "29.02.2000" -> <<2000, 2, 29>>
      [] s = "28.12.2024" -> <<2024, 12, 28>>
      [] s = "01.01.2030" -> <<2030, 1, 1>>
      [] OTHER            -> None

NotAfter(a, b) == \/ a[1] < b[1]
                  \/ a[1] = b[1] /\ a[2] < b[2]
                  \/ a[1] = b[1] /\ a[2] = b[2] /\ a[3] <= b[3]

\* what add_birthday does apart from the rendering of the stored value
BirthdayOutcome ==
    LET s == last.args[2]
        was == BirthdayIn(last.before, last.args[1])
        now == BirthdayIn(book, last.args[1])
    IN /\ last.exc = "none" <=> (Denotes(s) # None /\ NotAfter(Denotes(s), today))
       /\ (Denotes(s) # None /\ ~NotAfter(Denotes(s), today)) => last.exc = "ValidationError"
       /\ Denotes(s) = None =>
              /\ last.exc = "ValueError"
              /\ last.text = "Invalid date format. Use DD.MM.YYYY"
       /\ last.exc # "none" => book = last.before
       /\ last.exc = "none" => now = Denotes(s)

OccursIn(b, k) == LET d == AddDays(today, k) IN d[2] = b[2] /\ d[3] = b[3]

\* the next occurrence of the birthday lies 0 to 7 days from today
Due(rec) == rec.birthday # None /\ \E k \in 0..7 : OccursIn(rec.birthday, k)

NamesOf(entries) == [i \in 1..Len(entries) |-> entries[i].name]

RECURSIVE DueNames(_, _)
DueNames(data, i) ==
    IF i > Len(data) THEN <<>>
    ELSE (IF Due(data[i]) THEN <<data[i].name>> ELSE <<>>) \o DueNames(data, i + 1)

\* C3: get_upcoming_birthdays returns a list for every book and every day,
\* whatever birthdays are stored (29 February included), and the list holds,
\* in the book's order, exactly one entry for each record whose birthday next
\* occurs 0 to 7 days from today.
C3_UpcomingWindow ==
    last.op = "get_upcoming_birthdays" =>
        /\ last.exc = "none"
        /\ NamesOf(last.ret) = DueNames(book, 1)

\* Zeller's congruence, turned to Monday = 0 ... Sunday = 6
DayOfWeek(dt) ==
    LET m == IF dt[2] < 3 THEN dt[2] + 12 ELSE dt[2]
        y == IF dt[2] < 3 THEN dt[1] - 1 ELSE dt[1]
        h == (dt[3] + (13 * (m + 1)) \div 5 + y + y \div 4 - y \div 100 + y \div 400) % 7
    IN (h + 5) % 7

\* the date an occurrence is reported as
Reported(occ) == IF DayOfWeek(occ) = 5 THEN AddDays(occ, 2)
                 ELSE IF DayOfWeek(occ) = 6 THEN AddDays(occ, 1)
                 ELSE occ

\* C4: each returned entry reports the occurrence itself when it falls on
\* Monday to Friday, two days later for a Saturday and one day later for a
\* Sunday, the occurrence being 0 to 7 days from today: the reported date is
\* never a Saturday or Sunday and lies 0 to 9 days from today.
C4_WeekendRollForward ==
    (last.op = "get_upcoming_birthdays" /\ last.exc = "none") =>
        \A i \in 1..Len(last.ret) :
            LET e == last.ret[i]
                b == BirthdayIn(book, e.name)
            IN /\ b # None
               /\ \E k \in 0..7 :
                      /\ OccursIn(b, k)
                      /\ e.birthday = strftime(Reported(AddDays(today, k)))
               /\ \E k \in 0..9 :
                      /\ e.birthday = strftime(AddDays(today, k))
                      /\ DayOfWeek(AddDays(today, k)) \in 0..4

\* a Saturday occurrence 7 days from today is reported as the Monday 9 days
\* from today
C4_Witness ==
    /\ last.op = "get_upcoming_birthdays"
    /\ last.exc = "none"
    /\ \E i \in 1..Len(last.ret) :
           /\ last.ret[i].birthday = strftime(AddDays(today, 9))
           /\ OccursIn(BirthdayIn(book, last.ret[i].name), 7)
           /\ DayOfWeek(AddDays(today, 7)) = 5

(***************************************************************************)
(* Properties of the command loop (Spec)                                   *)
(***************************************************************************)
\* C7: a run that ends through close or exit has saved exactly once, after
\* its last command, and the saved book is the book in memory: loading the
\* file gives the same records; before the end nothing is saved.
C7_SaveOnExit ==
    /\ pc = "done" =>
           /\ saves = 1
           /\ last.op \in {"close", "exit"}
           /\ file.exists
           /\ load_data(file) = book
    /\ pc \in {"start", "loop"} => saves = 0

\* a run ended with two records in memory, one with a birthday and one with
\* two phones
C7_Witness ==
    /\ pc = "done"
    /\ Len(book) = 2
    /\ \E i \in 1..2 : book[i].birthday # None
    /\ \E i \in 1..2 : Len(book[i].phones) = 2

\* C8: no input line ends the session except close and exit: after any other
\* line the loop has printed its answer, an error message being non-empty,
\* and is back at the prompt.
C8_LoopGoesOn ==
    /\ pc # "crashed"
    /\ pc = "done" => last.op \in {"close", "exit"}
    /\ last.op \notin {"", "close", "exit"} =>
           /\ pc = "loop"
           /\ last.exc # "none" => Len(last.text) > 0

\* the birthdays query met a stored 29 February, answered and went on
C8_Witness ==
    /\ last.op = "birthdays"
    /\ last.exc = "ValueError"
    /\ pc = "loop"

\* C10: a command that answers with an error message leaves the book as it
\* was before the command.
C10_ErrorLeavesBookUnchanged ==
    (pc = "loop" /\ last.exc # "none") => book = last.before

====
